---------------------------- MODULE Spec2Model ----------------------------
(***************************************************************************)
(* Model of the Mars lander mechanics in lander.cpp: the autopilot, the    *)
(* integrator numerical_dynamics and the scenario table                    *)
(* initialize_simulation.                                                  *)
(*                                                                         *)
(* Number representation.  The program computes in double; the model       *)
(* computes in fixed point over TLC's 32-bit integers, rounding every      *)
(* division towards zero:                                                  *)
(*   position        whole kilometres                                      *)
(*   velocity        whole metres per second                               *)
(*   acceleration    decimetres per second squared                         *)
(*   force           decinewtons                                           *)
(*   mass            kilograms                                             *)
(*   density         milligrams per cubic metre                            *)
(*   unit vectors, throttle, fuel, the autopilot's gains and its           *)
(*                   intermediate values: thousandths                      *)
(*   altitude (autopilot)  whole metres                                    *)
(*   delta_t         tenths of a time quantum of 1000 s, so the 0.1 of     *)
(*                   the presets is delta_t = 1 and one step covers 100 s: *)
(*                   a 0.1 s step moves the lander by less than one        *)
(*                   position quantum and would leave it where it is.      *)
(* A double that is NaN is recorded in the set nan (the names of the       *)
(* variables holding NaN); the stored value of such a variable is the zero *)
(* vector and is never read.                                               *)
(***************************************************************************)
EXTENDS Integers, Sequences, FiniteSets, TLC

VARIABLES
    position,             \* vector3d, km
    velocity,             \* vector3d, m/s
    orientation,          \* [kind, v]: Euler angles (degrees) or a held axis
    fuel,                 \* 0..1000 (thousandths of capacity)
    throttle,             \* 0..1000 (thousandths)
    parachute_status,     \* "NOT_DEPLOYED" | "DEPLOYED" | "LOST"
    stabilized_attitude,  \* BOOLEAN
    autopilot_enabled,    \* BOOLEAN
    delta_t,              \* tenths of a time quantum
    scenario,             \* 0..9
    nan,                  \* names of the variables that hold NaN
    zero_norm,            \* what vector3d::norm gives for the zero vector
    op,                   \* the operation that produced this state
    pre,                  \* the state that operation started from
    calls,                \* what that operation did, in order
    safe,                 \* the answer safe_to_deploy_parachute gave in it
    steps                 \* operations performed so far

vars == <<position, velocity, orientation, fuel, throttle, parachute_status,
          stabilized_attitude, autopilot_enabled, delta_t, scenario, nan,
          zero_norm, op, pre, calls, safe, steps>>

-----------------------------------------------------------------------------
(* Bounds of the model *)

MaxSteps == 5

MaxRadius == 21000

MaxSpeed == 6000

-----------------------------------------------------------------------------
(* Fixed-point arithmetic *)

\* a / b for b > 0, rounded towards zero
Quot(a, b) == IF a >= 0 THEN a \div b ELSE -((-a) \div b)

\* a * b / 1000 without forming a * b
MilliMul(a, b) ==
    LET q == Quot(b, 1000)
        r == b - 1000 * q
    IN a * q + Quot(a * r, 1000)

RECURSIVE SqrtIter(_, _, _)
SqrtIter(n, lo, hi) ==
    IF lo >= hi THEN lo
    ELSE LET mid == (lo + hi + 1) \div 2
         IN IF mid * mid <= n THEN SqrtIter(n, mid, hi)
                              ELSE SqrtIter(n, lo, mid - 1)

\* floor of the square root, 0 <= n < 2^31
ISqrt(n) == SqrtIter(n, 0, 46340)

-----------------------------------------------------------------------------
(* vector3d *)

ZeroVec == <<0, 0, 0>>

VAdd(a, b) == <<a[1] + b[1], a[2] + b[2], a[3] + b[3]>>

VSub(a, b) == <<a[1] - b[1], a[2] - b[2], a[3] - b[3]>>

VScale(k, a) == <<k * a[1], k * a[2], k * a[3]>>

VQuot(a, k) == <<Quot(a[1], k), Quot(a[2], k), Quot(a[3], k)>>

\* operator* of two vectors: the scalar product
Dot(a, b) == a[1] * b[1] + a[2] * b[2] + a[3] * b[3]

\* vector3d::abs
Abs(a) == ISqrt(Dot(a, a))

\* vector3d::norm, in thousandths; the zero vector is handled by the callers
Norm(a) ==
    LET s == Abs(a)
    IN IF s = 0 THEN a
       ELSE <<Quot(1000 * a[1], s), Quot(1000 * a[2], s), Quot(1000 * a[3], s)>>

\* the two things a build can make of norm() of the zero vector: the vector
\* itself (guarded) or 0/0 in every component
ZeroNormOutcomes == {"zero", "nan"}

\* normalising a gives NaN
NormIsNaN(a, isnan, zn) == isnan \/ (a = ZeroVec /\ zn = "nan")

-----------------------------------------------------------------------------
(* The physical constants of lander.h, in the model's units *)

MARS_RADIUS == 3386

EXOSPHERE == 200

\* GRAVITY * MARS_MASS is G M in dm/s^2 km^2
GRAVITY == 6673

MARS_MASS == 64200

UNLOADED_LANDER_MASS == 100

FUEL_CAPACITY == 100

FUEL_DENSITY == 1

DRAG_COEF_CHUTE == 2

DRAG_COEF_LANDER == 1

LANDER_SIZE == 1

\* 1.5 * (fully fuelled mass) * (surface gravity), in decinewtons
MAX_THRUST == 11210

-----------------------------------------------------------------------------
(* The program state as one record, threaded through the calls of a step *)

State ==
    [position |-> position, velocity |-> velocity, orientation |-> orientation,
     fuel |-> fuel, throttle |-> throttle,
     parachute_status |-> parachute_status,
     stabilized_attitude |-> stabilized_attitude,
     autopilot_enabled |-> autopilot_enabled, delta_t |-> delta_t,
     nan |-> nan, calls |-> <<>>, safe |-> "not_asked"]

\* the part of a state record the program itself holds
Globals(s) ==
    [position |-> s.position, velocity |-> s.velocity,
     orientation |-> s.orientation, fuel |-> s.fuel, throttle |-> s.throttle,
     parachute_status |-> s.parachute_status,
     stabilized_attitude |-> s.stabilized_attitude,
     autopilot_enabled |-> s.autopilot_enabled, delta_t |-> s.delta_t,
     nan |-> s.nan]

Euler(a, b, c) == [kind |-> "euler", v |-> <<a, b, c>>]

-----------------------------------------------------------------------------
(* The collaborators of lander.cpp: declared in lander.h, defined elsewhere *)

\* altitude of a position, km
AltitudeKm(p) == Abs(p) - MARS_RADIUS

\* atmospheric_density(position): nonnegative, decaying with altitude, nothing
\* below the surface or above the exosphere
atmospheric_density(p) ==
    LET a == AltitudeKm(p)
    IN IF a < 0 \/ a > EXOSPHERE THEN 0
       ELSE IF a >= 150 THEN 1
       ELSE IF a >= 100 THEN 5
       ELSE IF a >= 50 THEN 20
       ELSE IF a >= 10 THEN 50
       ELSE 100

\* the world-frame direction of the engine axis, in thousandths
ThrustAxis(o) ==
    IF o.kind = "held" THEN o.v
    ELSE IF o.v[2] = 90 THEN <<1000, 0, 0>>
    ELSE <<0, 0, 1000>>

\* thrust_wrt_world(): throttle * MAX_THRUST along the engine axis, nothing
\* once the tank is empty
thrust_wrt_world(s) ==
    IF s.fuel = 0 THEN ZeroVec
    ELSE VQuot(VScale(MilliMul(MAX_THRUST, s.throttle), ThrustAxis(s.orientation)), 1000)

\* attitude_stabilization(): turns the lander so that its base points at the
\* planet, that is its engine axis along the unit position vector
attitude_stabilization(s, zn) ==
    LET bad == NormIsNaN(s.position, "position" \in s.nan, zn)
    IN [s EXCEPT
          !.orientation = [kind |-> "held",
                           v |-> IF bad THEN ZeroVec ELSE Norm(s.position)],
          !.nan = IF bad THEN s.nan \cup {"orientation"}
                         ELSE s.nan \ {"orientation"},
          !.calls = Append(s.calls, "attitude_stabilization")]

-----------------------------------------------------------------------------
(* autopilot, lander.cpp lines 18-44 *)

Kh_const == 20

Kp_const == 500

Offset == 500

\* the 0.5 inside Pout_const
DescentBias == 500

DeployAltitude == 150000

\* altitude = position.abs() - MARS_RADIUS, in metres
Altitude(p) == 1000 * (Abs(p) - MARS_RADIUS)

\* descent_rate = velocity * position.norm(), in mm/s
DescentRate(p, v) == Dot(v, Norm(p))

\* Pout with the sign of the bracket lost
PoutSignLost(altitude, descent_rate) ==
    MilliMul(Kp_const, DescentBias + Kh_const * altitude + descent_rate)

\* Pout_const = Kp_const*(-(0.5 + Kh_const*altitude + descent_rate))
Pout(altitude, descent_rate) ==
    MilliMul(Kp_const, -(DescentBias + Kh_const * altitude + descent_rate))

\* ThrottleLaw without its two saturating branches
ThrottleLawUnclamped(Pout_const) == Offset + Pout_const

\* lines 28-39: the three branches on Pout_const
ThrottleLaw(Pout_const) ==
    IF Pout_const <= -Offset THEN 0
    ELSE IF Pout_const < 1000 - Offset THEN Offset + Pout_const
    ELSE 1000

\* DeployDecision with an else branch that retracts the parachute
DeployDecisionRetracts(status, altitude, answer) ==
    IF altitude <= DeployAltitude /\ answer THEN "DEPLOYED" ELSE "NOT_DEPLOYED"

\* lines 40-43: the parachute decision; answer is what
\* safe_to_deploy_parachute() returns when it is called
DeployDecision(status, altitude, answer) ==
    IF altitude <= DeployAltitude /\ answer THEN "DEPLOYED" ELSE status

\* autopilot without line 26
autopilotKeepsAttitudeFlag(s, zn, answer) ==
    LET altNaN == "position" \in s.nan
        drNaN == \/ "velocity" \in s.nan
                 \/ NormIsNaN(s.position, "position" \in s.nan, zn)
        altitude == Altitude(s.position)
        newThrottle == IF altNaN \/ drNaN THEN 1000
                       ELSE ThrottleLaw(Pout(altitude,
                                             DescentRate(s.position, s.velocity)))
        asked == ~altNaN /\ altitude <= DeployAltitude
    IN [s EXCEPT
          !.throttle = newThrottle,
          !.parachute_status =
              IF asked THEN DeployDecision(s.parachute_status, altitude, answer)
                       ELSE s.parachute_status,
          !.safe = IF asked THEN (IF answer THEN "yes" ELSE "no") ELSE "not_asked",
          !.calls = Append(s.calls, "autopilot")]

autopilot(s, zn, answer) ==
    LET altNaN == "position" \in s.nan
        drNaN == \/ "velocity" \in s.nan
                 \/ NormIsNaN(s.position, "position" \in s.nan, zn)
        altitude == Altitude(s.position)
        descent_rate == DescentRate(s.position, s.velocity)
        \* a comparison with NaN is false: the first two branches are not taken
        newThrottle == IF altNaN \/ drNaN THEN 1000
                       ELSE ThrottleLaw(Pout(altitude, descent_rate))
        \* && evaluates safe_to_deploy_parachute() only when the altitude test holds
        asked == ~altNaN /\ altitude <= DeployAltitude
    IN [s EXCEPT
          !.stabilized_attitude = TRUE,
          !.throttle = newThrottle,
          !.parachute_status =
              IF asked THEN DeployDecision(s.parachute_status, altitude, answer)
                       ELSE s.parachute_status,
          !.safe = IF asked THEN (IF answer THEN "yes" ELSE "no") ELSE "not_asked",
          !.calls = Append(s.calls, "autopilot")]

-----------------------------------------------------------------------------
(* numerical_dynamics, lander.cpp lines 48-84 *)

\* 3.141592654, in hundredths
PI100 == 314

\* the 20 of the chute drag, in hundredths
CHUTE_AREA100 == 2000

\* line 60
Mass(s) == UNLOADED_LANDER_MASS + MilliMul(FUEL_CAPACITY * FUEL_DENSITY, s.fuel)

\* line 61: -GRAVITY*MARS_MASS*normalr/(modulusr*modulusr), dm/s^2
GravityAcceleration(p) ==
    LET modulusr == Abs(p)
        normalr == Norm(p)
    IN VQuot(VScale(-Quot(GRAVITY * MARS_MASS, modulusr * modulusr), normalr), 1000)

\* 0.5*density*coef*area*LANDER_SIZE*LANDER_SIZE*modulusv*modulusv*normalv in
\* decinewtons, area100 being the area factor in hundredths; the divisions
\* by 100, 1000 and 200 are 0.5 and the units, taken early to stay in range
DragForce(density, coef, area100, v) ==
    LET modulusv == Abs(v)
        normalv == Norm(v)
        q == VScale(modulusv, VQuot(VScale(modulusv, normalv), 1000))
        w == VQuot(VScale(density, VQuot(q, 100)), 1000)
    IN VQuot(VScale(coef * area100 * LANDER_SIZE * LANDER_SIZE, w), 200)

\* line 62
DragLanderAcceleration(s) ==
    VQuot(DragForce(atmospheric_density(s.position), DRAG_COEF_LANDER, PI100,
                    s.velocity), Mass(s))

\* line 63
ThrustAcceleration(s) == VQuot(thrust_wrt_world(s), Mass(s))

\* line 64
DragChuteAcceleration(s) ==
    VQuot(DragForce(atmospheric_density(s.position), DRAG_COEF_CHUTE,
                    CHUTE_AREA100, s.velocity), Mass(s))

\* lines 66-77: the acceleration of the branch taken
Acceleration(s) ==
    IF s.parachute_status = "DEPLOYED"
    THEN VAdd(VSub(VSub(GravityAcceleration(s.position),
                        DragLanderAcceleration(s)),
                   DragChuteAcceleration(s)),
              ThrustAcceleration(s))
    ELSE VAdd(VSub(GravityAcceleration(s.position), DragLanderAcceleration(s)),
              ThrustAcceleration(s))

\* one of the accelerations of lines 61-64 is NaN: a position or velocity that
\* is NaN, gravity's 0/0 at the origin, the drag's 0 * NaN for a velocity whose
\* norm is NaN, a thrust along an axis that is NaN
AccelerationIsNaN(s, zn) ==
    \/ "position" \in s.nan
    \/ s.position = ZeroVec
    \/ NormIsNaN(s.velocity, "velocity" \in s.nan, zn)
    \/ "orientation" \in s.nan

\* delta_t*velocity in km and delta_t*acceleration in m/s, delta_t in tenths of
\* 1000 s
StepOfPosition(dt, v) == VQuot(VScale(dt, v), 10)

StepOfVelocity(dt, a) == VScale(10 * dt, a)

\* EulerUpdate with the acceleration taken after position has been written
EulerUpdateFromNewPosition(s, zn) ==
    LET posNaN == "position" \in s.nan \/ "velocity" \in s.nan
        velNaN == "velocity" \in s.nan \/ AccelerationIsNaN(s, zn)
        newPosition == VAdd(s.position, StepOfPosition(s.delta_t, s.velocity))
        acceleration == Acceleration([s EXCEPT !.position = newPosition])
    IN [s EXCEPT
          !.position = IF posNaN THEN ZeroVec ELSE newPosition,
          !.velocity = IF velNaN THEN ZeroVec
                       ELSE VAdd(s.velocity, StepOfVelocity(s.delta_t, acceleration)),
          !.nan = (s.nan \ {"position", "velocity"})
                    \cup (IF posNaN THEN {"position"} ELSE {})
                    \cup (IF velNaN THEN {"velocity"} ELSE {}),
          !.calls = Append(s.calls, "update")]

\* lines 69-70 and 75-76: position first, from the old velocity; then velocity,
\* from the acceleration computed before either was written
EulerUpdate(s, zn) ==
    LET posNaN == "position" \in s.nan \/ "velocity" \in s.nan
        velNaN == "velocity" \in s.nan \/ AccelerationIsNaN(s, zn)
        acceleration == Acceleration(s)
    IN [s EXCEPT
          !.position = IF posNaN THEN ZeroVec
                       ELSE VAdd(s.position, StepOfPosition(s.delta_t, s.velocity)),
          !.velocity = IF velNaN THEN ZeroVec
                       ELSE VAdd(s.velocity, StepOfVelocity(s.delta_t, acceleration)),
          !.nan = (s.nan \ {"position", "velocity"})
                    \cup (IF posNaN THEN {"position"} ELSE {})
                    \cup (IF velNaN THEN {"velocity"} ELSE {}),
          !.calls = Append(s.calls, "update")]

\* line 80
AutopilotStep(s, zn, answer) ==
    IF s.autopilot_enabled THEN autopilot(s, zn, answer) ELSE s

\* StabilizationStep without its test of the flag
StabilizationStepAlways(s, zn) == attitude_stabilization(s, zn)

\* line 83
StabilizationStep(s, zn) ==
    IF s.stabilized_attitude THEN attitude_stabilization(s, zn) ELSE s

\* numerical_dynamics with the autopilot called before the update
numerical_dynamicsAutopilotFirst(s, zn, answer) ==
    StabilizationStep(EulerUpdate(AutopilotStep(s, zn, answer), zn), zn)

numerical_dynamics(s, zn, answer) ==
    StabilizationStep(AutopilotStep(EulerUpdate(s, zn), zn, answer), zn)

-----------------------------------------------------------------------------
(* initialize_simulation, lander.cpp lines 86-198 *)

Preset(pos, vel, ori, dt, stab) ==
    [position |-> pos, velocity |-> vel, orientation |-> ori, delta_t |-> dt,
     parachute_status |-> "NOT_DEPLOYED", stabilized_attitude |-> stab,
     autopilot_enabled |-> FALSE]

\* the cases of the switch that assign; the lengths in km, 1.2*MARS_RADIUS
\* and 20429635.87 m rounded to the kilometre, LANDER_SIZE/2 to nothing
Presets ==
    [n \in 0..6 |->
       CASE n = 0 -> Preset(<<Quot(12 * MARS_RADIUS, 10), 0, 0>>,
                            <<0, -3247, 0>>, Euler(0, 90, 0), 1, FALSE)
         [] n = 1 -> Preset(<<0, -(MARS_RADIUS + 10), 0>>,
                            <<0, 0, 0>>, Euler(0, 0, 90), 1, TRUE)
         [] n = 2 -> Preset(<<0, 0, Quot(12 * MARS_RADIUS, 10)>>,
                            <<3500, 0, 0>>, Euler(0, 0, 90), 1, FALSE)
         [] n = 3 -> Preset(<<0, 0, MARS_RADIUS + Quot(LANDER_SIZE, 2000)>>,
                            <<0, 0, 5027>>, Euler(0, 0, 0), 1, FALSE)
         [] n = 4 -> Preset(<<0, 0, MARS_RADIUS + 100>>,
                            <<4000, 0, 0>>, Euler(0, 90, 0), 1, FALSE)
         [] n = 5 -> Preset(<<0, -(MARS_RADIUS + EXOSPHERE), 0>>,
                            <<0, 0, 0>>, Euler(0, 0, 90), 1, TRUE)
         [] n = 6 -> Preset(<<20430, 0, 0>>,
                            <<0, 1448, 0>>, Euler(0, 90, 0), 1, FALSE)]

\* the switch on scenario: cases 0-6 assign the seven variables, cases 7-9
\* break without assigning anything
initialize_simulation(s, n) ==
    IF n \in 0..6
    THEN [s EXCEPT
            !.position = Presets[n].position,
            !.velocity = Presets[n].velocity,
            !.orientation = Presets[n].orientation,
            !.delta_t = Presets[n].delta_t,
            !.parachute_status = Presets[n].parachute_status,
            !.stabilized_attitude = Presets[n].stabilized_attitude,
            !.autopilot_enabled = Presets[n].autopilot_enabled,
            !.nan = s.nan \ {"position", "velocity", "orientation"},
            !.calls = Append(s.calls, "assign")]
    ELSE s

-----------------------------------------------------------------------------
(* The state machine *)

InitialThrottles == {0, 600}

InitialFuels == {500, 1000}

\* the globals as the program starts: zero-initialised, then throttle and fuel
\* as the run begins with them
StartState(th, f) ==
    [position |-> ZeroVec, velocity |-> ZeroVec, orientation |-> Euler(0, 0, 0),
     fuel |-> f, throttle |-> th, parachute_status |-> "NOT_DEPLOYED",
     stabilized_attitude |-> FALSE, autopilot_enabled |-> FALSE, delta_t |-> 0,
     nan |-> {}, calls |-> <<>>, safe |-> "not_asked"]

\* the variables take the values of record s, produced by operation o
Becomes(s, o) ==
    /\ position' = s.position
    /\ velocity' = s.velocity
    /\ orientation' = s.orientation
    /\ fuel' = s.fuel
    /\ throttle' = s.throttle
    /\ parachute_status' = s.parachute_status
    /\ stabilized_attitude' = s.stabilized_attitude
    /\ autopilot_enabled' = s.autopilot_enabled
    /\ delta_t' = s.delta_t
    /\ nan' = s.nan
    /\ calls' = s.calls
    /\ safe' = s.safe
    /\ op' = o
    /\ pre' = Globals(State)

StartsAs(s, n, zn) ==
    /\ position = s.position
    /\ velocity = s.velocity
    /\ orientation = s.orientation
    /\ fuel = s.fuel
    /\ throttle = s.throttle
    /\ parachute_status = s.parachute_status
    /\ stabilized_attitude = s.stabilized_attitude
    /\ autopilot_enabled = s.autopilot_enabled
    /\ delta_t = s.delta_t
    /\ nan = s.nan
    /\ calls = s.calls
    /\ safe = s.safe
    /\ op = "start"
    /\ pre = Globals(s)
    /\ scenario = n
    /\ zero_norm = zn
    /\ steps = 0

\* a run starts from one of the presets that are filled in
Init ==
    \E n \in 0..6, th \in InitialThrottles, f \in InitialFuels,
       zn \in ZeroNormOutcomes :
        StartsAs(initialize_simulation(StartState(th, f), n), n, zn)

\* the run loop calls the integrator while the lander is above the surface;
\* the magnitudes are kept in the range the arithmetic of the model covers
Flying ==
    /\ "position" \in nan \/ Abs(position) >= MARS_RADIUS
    /\ \A i \in 1..3 : position[i] \in -MaxRadius..MaxRadius
    /\ \A i \in 1..3 : velocity[i] \in -MaxSpeed..MaxSpeed

\* one tick: a call of numerical_dynamics
Tick ==
    /\ steps < MaxSteps
    /\ Flying
    /\ \E answer \in BOOLEAN :
          Becomes(numerical_dynamics(State, zero_norm, answer), "numerical_dynamics")
    /\ steps' = steps + 1
    /\ UNCHANGED <<scenario, zero_norm>>

\* the user switches the autopilot on or off between two ticks
ToggleAutopilot ==
    /\ Becomes([State EXCEPT !.autopilot_enabled = ~autopilot_enabled],
               "toggle_autopilot")
    /\ UNCHANGED <<scenario, zero_norm, steps>>

\* the run loop tears a deployed parachute off
ParachuteLost ==
    /\ parachute_status = "DEPLOYED"
    /\ Becomes([State EXCEPT !.parachute_status = "LOST"], "parachute_lost")
    /\ UNCHANGED <<scenario, zero_norm, steps>>

Next == Tick \/ ToggleAutopilot \/ ParachuteLost

Spec == Init /\ [][Next]_vars

-----------------------------------------------------------------------------
(* Runs in which the user restarts the simulation *)

\* the user picks a scenario and the simulation is initialised again
InitializeSimulation ==
    /\ \E n \in 0..9 :
          /\ scenario' = n
          /\ Becomes(initialize_simulation(State, n), "initialize_simulation")
    /\ UNCHANGED <<zero_norm, steps>>

NextInit == Tick \/ ToggleAutopilot \/ ParachuteLost \/ InitializeSimulation

SpecInit == Init /\ [][NextInit]_vars

-----------------------------------------------------------------------------
(* The autopilot alone, called on a frozen state *)

MaxCalls == 2

\* altitudes (km) and radial speeds (m/s, positive towards the planet) the
\* frozen states are drawn from
FrozenAltitudes == {0, 1, 10, 149, 150, 151, 200}

FrozenSpeeds == {-40, 0, 1, 5, 20, 21, 50, 400}

\* on the -y axis, as presets 1 and 5 are, and one position off the axes whose
\* unit vector has x component 0.5
FrozenPositions ==
    {<<0, -(MARS_RADIUS + a), 0>> : a \in FrozenAltitudes} \cup {<<1693, 2932, 0>>}

FrozenVelocities == {<<0, d, 0>> : d \in FrozenSpeeds} \cup {<<39, 0, 0>>}

InitFrozen ==
    \E p \in FrozenPositions, v \in FrozenVelocities,
       st \in {"NOT_DEPLOYED", "DEPLOYED", "LOST"}, zn \in ZeroNormOutcomes :
        StartsAs([StartState(0, 1000) EXCEPT !.position = p, !.velocity = v,
                     !.parachute_status = st, !.delta_t = 1,
                     !.autopilot_enabled = TRUE], 1, zn)

\* a call of autopilot with nothing else running
AutopilotCall ==
    /\ steps < MaxCalls
    /\ \E answer \in BOOLEAN :
          Becomes(autopilot(State, zero_norm, answer), "autopilot")
    /\ steps' = steps + 1
    /\ UNCHANGED <<scenario, zero_norm>>

NextFrozen == AutopilotCall

SpecFrozen == InitFrozen /\ [][NextFrozen]_vars

\* ticks and direct calls of autopilot, in any order, from the drawn states
NextDrawn == Tick \/ AutopilotCall

SpecDrawn == InitFrozen /\ [][NextDrawn]_vars

-----------------------------------------------------------------------------
(* Properties *)

\* this step is a call of numerical_dynamics
TickStep == op' = "numerical_dynamics" /\ steps' = steps + 1

\* the state is the result of a call of numerical_dynamics
AfterTick == op = "numerical_dynamics"

Min(a, b) == IF a <= b THEN a ELSE b

Max(a, b) == IF a >= b THEN a ELSE b

\* C1: the parachute status only moves forward: a DEPLOYED status never
\* becomes NOT_DEPLOYED again and a LOST status never becomes DEPLOYED or
\* NOT_DEPLOYED again.
C1_StatusMovesForward ==
    [][/\ parachute_status = "DEPLOYED" => parachute_status' # "NOT_DEPLOYED"
       /\ parachute_status = "LOST" => parachute_status' = "LOST"]_vars

\* C2: the throttle is in [0,1] after every call of autopilot, for any position
\* and velocity, and in every state that ticks reach from there.
C2_ThrottleInRange == throttle \in 0..1000

\* a call of autopilot that left the throttle strictly between 0 and 1, and a
\* tick after it whose autopilot call saturated it
C2_Witness ==
    /\ AfterTick
    /\ calls = <<"update", "autopilot", "attitude_stabilization">>
    /\ 0 < pre.throttle /\ pre.throttle < 1000
    /\ throttle \in {0, 1000}
    /\ nan = {}

\* C3: in a tick with the autopilot enabled a NOT_DEPLOYED status becomes
\* DEPLOYED exactly when the altitude of the position written in that tick is
\* at most 150000 m and safe_to_deploy_parachute answers true, and otherwise
\* stays NOT_DEPLOYED; a DEPLOYED status stays DEPLOYED in every tick,
\* whatever the altitude and the answer.
C3_DeployedAtFirstSafeTick ==
    [][TickStep =>
        /\ (autopilot_enabled /\ parachute_status = "NOT_DEPLOYED") =>
              IF /\ "position" \notin nan'
                 /\ 1000 * (Abs(position') - MARS_RADIUS) <= 150000
                 /\ safe' = "yes"
              THEN parachute_status' = "DEPLOYED"
              ELSE parachute_status' = "NOT_DEPLOYED"
        /\ parachute_status = "DEPLOYED" => parachute_status' = "DEPLOYED"]_vars

\* a deployed parachute kept through a tick in which the safety check said no
C3_Witness ==
    /\ AfterTick
    /\ pre.autopilot_enabled
    /\ pre.parachute_status = "DEPLOYED"
    /\ safe = "no"
    /\ parachute_status = "DEPLOYED"

\* the acceleration of the reference operator at state g: gravity minus lander
\* drag plus thrust, minus chute drag when the parachute is deployed
ReferenceAcceleration(g) ==
    LET chute == IF g.parachute_status = "DEPLOYED"
                 THEN DragChuteAcceleration(g) ELSE ZeroVec
    IN VSub(VAdd(VSub(GravityAcceleration(g.position), DragLanderAcceleration(g)),
                 ThrustAcceleration(g)),
            chute)

\* C4: a tick is the forward Euler step: the new position is the old position
\* plus delta_t times the old velocity, the new velocity is the old velocity
\* plus delta_t times the reference acceleration of the old state.
C4_ForwardEuler ==
    (AfterTick /\ pre.nan = {} /\ nan \cap {"position", "velocity"} = {}) =>
        /\ \A i \in 1..3 :
              position[i] = pre.position[i] + Quot(pre.delta_t * pre.velocity[i], 10)
        /\ \A i \in 1..3 :
              velocity[i] = pre.velocity[i]
                              + 10 * pre.delta_t * ReferenceAcceleration(pre)[i]

\* a tick under a deployed parachute with the engine running, in which the
\* chute drag and the thrust both count and the lander has moved
C4_Witness ==
    /\ AfterTick
    /\ pre.nan = {} /\ nan = {}
    /\ pre.parachute_status = "DEPLOYED"
    /\ DragChuteAcceleration(pre) # ZeroVec
    /\ ThrustAcceleration(pre) # ZeroVec
    /\ position # pre.position

\* P = Kp * (-(0.5 + Kh*altitude + descent_rate)) with Kp = 0.5 and Kh = 0.02,
\* in thousandths, from altitude a (m) and descent rate d (mm/s)
ReferenceP(a, d) == Quot(-(500 + 20 * a + d), 2)

\* C5: the throttle the autopilot writes is min(1, max(0, Offset + P)): 0 for
\* P <= -Offset, Offset + P in between, 1 for P >= 1 - Offset; P = 0 gives
\* Offset; altitude 1000 with descent rate -5 and altitude 200000 with descent
\* rate -50 give 0; a second call on the same state gives the same throttle.
C5_SaturatingLinearMap ==
    (op = "autopilot") =>
        LET a == 1000 * (Abs(pre.position) - MARS_RADIUS)
            d == Dot(pre.velocity, Norm(pre.position))
            P == ReferenceP(a, d)
        IN /\ throttle = Min(1000, Max(0, 500 + P))
           /\ P <= -500 => throttle = 0
           /\ (-500 < P /\ P < 500) => throttle = 500 + P
           /\ P >= 500 => throttle = 1000
           /\ P = 0 => throttle = 500
           /\ (a = 1000 /\ d = -5000) => throttle = 0
           /\ (a = 200000 /\ d = -50000) => throttle = 0
           /\ steps >= 2 => throttle = pre.throttle

\* a second call on a frozen state with P = 0
C5_Witness ==
    /\ op = "autopilot"
    /\ steps = 2
    /\ ReferenceP(1000 * (Abs(position) - MARS_RADIUS),
                  Dot(velocity, Norm(position))) = 0
    /\ throttle = 500

\* C6: a tick on a state whose position or velocity has zero magnitude fails
\* fast: it does not complete, and no NaN reaches position, velocity or
\* orientation.  lander.cpp has no way to stop a run, so a tick that was
\* taken has completed.
C6_ZeroMagnitudeFailsFast ==
    /\ AfterTick =>
          \/ "position" \in pre.nan \/ "velocity" \in pre.nan
          \/ (pre.position # ZeroVec /\ pre.velocity # ZeroVec)
    /\ nan = {}

\* C7: within a tick the update comes first, then the autopilot (if enabled)
\* on the updated position and velocity, then the attitude stabilization (if
\* the flag is set); the velocity written comes from the throttle and the
\* status the tick started with.
C7_OrderWithinTick ==
    (AfterTick /\ pre.nan = {} /\ nan = {}) =>
        /\ calls = <<"update">>
                     \o (IF pre.autopilot_enabled THEN <<"autopilot">> ELSE <<>>)
                     \o (IF stabilized_attitude
                         THEN <<"attitude_stabilization">> ELSE <<>>)
        /\ pre.autopilot_enabled =>
              throttle = ThrottleLaw(Pout(Altitude(position),
                                          DescentRate(position, velocity)))
        /\ velocity = VAdd(pre.velocity,
                           StepOfVelocity(pre.delta_t, ReferenceAcceleration(pre)))

\* a tick whose autopilot call changed the throttle and deployed the parachute,
\* where a velocity computed from the new values would have been another
C7_Witness ==
    /\ AfterTick
    /\ pre.nan = {} /\ nan = {}
    /\ pre.autopilot_enabled
    /\ throttle # pre.throttle
    /\ parachute_status = "DEPLOYED" /\ pre.parachute_status = "NOT_DEPLOYED"
    /\ ReferenceAcceleration([pre EXCEPT !.throttle = throttle,
                                         !.parachute_status = "DEPLOYED"])
         # ReferenceAcceleration(pre)

\* C8: a tick with the autopilot enabled leaves stabilized_attitude true and
\* ends with attitude_stabilization, whatever the flag was; so does a tick
\* that starts with the flag set; and no step clears the flag.
C8_StabilizedOnceAutopilotRan ==
    [][/\ stabilized_attitude => stabilized_attitude'
       /\ (TickStep /\ (autopilot_enabled \/ stabilized_attitude)) =>
             /\ stabilized_attitude'
             /\ calls'[Len(calls')] = "attitude_stabilization"]_vars

\* a preset that starts unstabilized, the autopilot switched off again, and a
\* tick that still stabilizes the attitude
C8_Witness ==
    /\ AfterTick
    /\ scenario \in {0, 2, 3, 4, 6}
    /\ ~pre.autopilot_enabled
    /\ calls = <<"update", "attitude_stabilization">>

\* C9: a tick never changes fuel, delta_t or autopilot_enabled, hence not the
\* mass; with autopilot_enabled and stabilized_attitude both false it changes
\* nothing but position and velocity.
C9_TickFrame ==
    [][TickStep =>
        /\ fuel' = fuel /\ delta_t' = delta_t
        /\ autopilot_enabled' = autopilot_enabled
        /\ Mass(Globals(State)') = Mass(Globals(State))
        /\ (~autopilot_enabled /\ ~stabilized_attitude) =>
              /\ throttle' = throttle
              /\ parachute_status' = parachute_status
              /\ orientation' = orientation
              /\ stabilized_attitude' = stabilized_attitude]_vars

\* a tick with both flags off and the engine running that moved the lander
C9_Witness ==
    /\ AfterTick
    /\ ~pre.autopilot_enabled /\ ~pre.stabilized_attitude
    /\ pre.throttle > 0
    /\ position # pre.position /\ velocity # pre.velocity
    /\ throttle = pre.throttle /\ orientation = pre.orientation

\* C10: after initialize_simulation, with any scenario in 0..9 and after any
\* earlier run, parachute_status is NOT_DEPLOYED and autopilot_enabled is
\* false.
C10_InitializeResetsFlags ==
    (op = "initialize_simulation") =>
        /\ parachute_status = "NOT_DEPLOYED"
        /\ ~autopilot_enabled

=============================================================================
